---------------------------- MODULE Spec2Model ----------------------------
(* Stripe event reconciliation of crates/collab/src/api/billing.rs:        *)
(* the background poller (poll_stripe_events_periodically), one walk of    *)
(* the provider's event feed (poll_stripe_events), the two event handlers, *)
(* the customer resolver (find_or_create_billing_customer) and the status  *)
(* mapper, over the billing_customers and billing_subscriptions tables.    *)
EXTENDS Integers, Sequences, FiniteSets, TLC

(***************************************************************************)
(* Bounds of the model.                                                    *)
(***************************************************************************)
\* Largest number of pages the provider's feed holds during one walk.
MaxPages == 2
\* The page size asked of the provider (params.limit, 100 in the code),
\* scaled down.
PageLimit == 2
\* Cap on the list requests of one walk (the walk itself has no cap).
MaxRequests == 2
\* Resolutions of a customer that run at the same time.
MaxResolvers == 2

\* ListEvents::new() leaves starting_after unset and the loop never sets it:
\* every request asks for the page at the head of the feed.
FirstPage == 1

(***************************************************************************)
(* Values.                                                                 *)
(***************************************************************************)
NoEmail == "<none>"
NoRow == [id |-> 0]

\* The users table (read only here: get_user_by_email).
Users ==
    { [id |-> 11, email_address |-> "a@example.com"],
      [id |-> 12, email_address |-> "b@example.com"] }

\* The provider's customer records: two with the e-mail of user 11, one with
\* no e-mail, one whose e-mail belongs to no user.
StripeCustomers ==
    { [id |-> "cus_1", email |-> "a@example.com"],
      [id |-> "cus_2", email |-> "a@example.com"],
      [id |-> "cus_3", email |-> NoEmail],
      [id |-> "cus_4", email |-> "z@example.com"] }

CustomerIds == { c.id : c \in StripeCustomers }
SubscriptionIds == {"sub_1", "sub_2"}

StripeCustomer(id) == CHOOSE c \in StripeCustomers : c.id = id

\* stripe::SubscriptionStatus (the provider's vocabulary).
SubscriptionStatus ==
    {"Incomplete", "IncompleteExpired", "Trialing", "Active",
     "PastDue", "Canceled", "Unpaid", "Paused"}

\* StripeSubscriptionStatus (the local enum, by its stored string value).
StripeSubscriptionStatus ==
    {"incomplete", "incomplete_expired", "trialing", "active",
     "past_due", "canceled", "unpaid", "paused"}

\* The variant of StripeSubscriptionStatus a stored string value stands for.
Variant(string_value) ==
    CASE string_value = "incomplete"         -> "Incomplete"
      [] string_value = "incomplete_expired" -> "IncompleteExpired"
      [] string_value = "trialing"           -> "Trialing"
      [] string_value = "active"             -> "Active"
      [] string_value = "past_due"           -> "PastDue"
      [] string_value = "canceled"           -> "Canceled"
      [] string_value = "unpaid"             -> "Unpaid"
      [] string_value = "paused"             -> "Paused"

\* A mutation: the statuses of a subscription that is not being paid for are
\* all stored as the enum's default.
FromWithDefault(value) ==
    CASE value = "Trialing" -> "trialing"
      [] value = "Active"   -> "active"
      [] value = "Canceled" -> "canceled"
      [] value = "Paused"   -> "paused"
      [] OTHER              -> "incomplete"

\* impl From<SubscriptionStatus> for StripeSubscriptionStatus
From(value) ==
    CASE value = "Incomplete"        -> "incomplete"
      [] value = "IncompleteExpired" -> "incomplete_expired"
      [] value = "Trialing"          -> "trialing"
      [] value = "Active"            -> "active"
      [] value = "PastDue"           -> "past_due"
      [] value = "Canceled"          -> "canceled"
      [] value = "Unpaid"            -> "unpaid"
      [] value = "Paused"            -> "paused"

\* Expandable<Customer>: a bare id, or the customer record itself.
ExpandableId(id) == [tag |-> "Id", id |-> id]
ExpandableObject(customer) == [tag |-> "Object", customer |-> customer]

\* EventObject: the payload of an event.
CustomerObject(customer) == [kind |-> "Customer", customer |-> customer]
SubscriptionObject(id, customer, status) ==
    [kind |-> "Subscription",
     subscription |-> [id |-> id, customer |-> customer, status |-> status]]

CustomerCreated == "customer.created"
SubscriptionEventTypes ==
    {"customer.subscription.created", "customer.subscription.updated",
     "customer.subscription.paused", "customer.subscription.resumed",
     "customer.subscription.deleted"}
\* The allow-list of poll_stripe_events (params.types).
event_types == {CustomerCreated} \cup SubscriptionEventTypes

Event(id, type_, object) == [id |-> id, type_ |-> type_, object |-> object]

\* The events the provider can list, all of an allow-listed type: customers
\* with and without a matching user, a subscription that moves from one
\* customer to another, a subscription of a customer no user matches, and an
\* event (evt_7) whose payload does not match its type.
StripeEvents ==
    { Event("evt_1", "customer.created", CustomerObject(StripeCustomer("cus_1"))),
      Event("evt_2", "customer.created", CustomerObject(StripeCustomer("cus_3"))),
      Event("evt_3", "customer.created", CustomerObject(StripeCustomer("cus_4"))),
      Event("evt_4", "customer.subscription.created",
            SubscriptionObject("sub_1", ExpandableId("cus_1"), "Active")),
      Event("evt_5", "customer.subscription.updated",
            SubscriptionObject("sub_1",
                ExpandableObject(StripeCustomer("cus_2")), "PastDue")),
      Event("evt_6", "customer.subscription.deleted",
            SubscriptionObject("sub_2", ExpandableId("cus_4"), "Canceled")),
      Event("evt_7", "customer.subscription.updated",
            CustomerObject(StripeCustomer("cus_1"))) }

\* The first `?` of a handler that returns an error, if the handler gets to it.
FailurePoints ==
    {"none", "get_billing_customer", "retrieve", "get_user_by_email",
     "create_billing_customer", "upsert_billing_subscription"}

\* Sequences without repetition of at most n members of S.
Pages(S, n) ==
    { s \in UNION { [1..k -> S] : k \in 0..n } :
        \A a, b \in DOMAIN s : a # b => s[a] # s[b] }

(***************************************************************************)
(* The storage layer (app.db), as the handlers use it.                     *)
(***************************************************************************)
Max(S) == CHOOSE m \in S : \A x \in S : x <= m
\* The serial primary key of the next row of a table.
NextId(table) == IF table = {} THEN 1 ELSE Max({ r.id : r \in table }) + 1

get_user_by_email(email) ==
    IF \E u \in Users : u.email_address = email
    THEN CHOOSE u \in Users : u.email_address = email
    ELSE NoRow

get_billing_customer_by_stripe_customer_id(customers, customer_id) ==
    IF \E c \in customers : c.stripe_customer_id = customer_id
    THEN CHOOSE c \in customers : c.stripe_customer_id = customer_id
    ELSE NoRow

\* The row create_billing_customer inserts and returns.
create_billing_customer(customers, params) ==
    [id |-> NextId(customers),
     user_id |-> params.user_id,
     stripe_customer_id |-> params.stripe_customer_id]

\* One atomic insert-or-update keyed on stripe_subscription_id: an existing
\* row keeps its id and takes the customer and the status of params.
upsert_billing_subscription_by_stripe_subscription_id(subscriptions, params) ==
    IF \E r \in subscriptions :
           r.stripe_subscription_id = params.stripe_subscription_id
    THEN { IF r.stripe_subscription_id = params.stripe_subscription_id
           THEN [r EXCEPT
                   !.billing_customer_id = params.billing_customer_id,
                   !.stripe_subscription_status =
                       params.stripe_subscription_status]
           ELSE r : r \in subscriptions }
    ELSE subscriptions \cup
           { [id |-> NextId(subscriptions),
              billing_customer_id |-> params.billing_customer_id,
              stripe_subscription_id |-> params.stripe_subscription_id,
              stripe_subscription_status |->
                  params.stripe_subscription_status] }

(***************************************************************************)
(* The provider's read API.                                                *)
(***************************************************************************)
\* Customer::retrieve, when it answers.
Customer_retrieve(id) == StripeCustomer(id)

(***************************************************************************)
(* find_or_create_billing_customer.  The result holds the returned value   *)
(* (outcome "Some" with row, "None", or "Err"), the customers table after  *)
(* the call, and whether the call fetched the customer from the provider   *)
(* and whether it created a row.  `fail` names the call that fails.        *)
(***************************************************************************)
Resolved(outcome, row, customers, retrieved, created) ==
    [outcome |-> outcome, row |-> row, customers |-> customers,
     retrieved |-> retrieved, created |-> created]

\* A mutation: the customer is fetched from the provider before the lookup.
find_or_create_fetch_first(customers, customer_or_id, fail) ==
    LET by_id == customer_or_id.tag = "Id"
        customer ==
            IF by_id THEN Customer_retrieve(customer_or_id.id)
            ELSE customer_or_id.customer
        billing_customer ==
            get_billing_customer_by_stripe_customer_id(customers, customer.id)
        user == get_user_by_email(customer.email)
        created ==
            create_billing_customer(customers,
                [user_id |-> user.id, stripe_customer_id |-> customer.id])
    IN  IF by_id /\ fail = "retrieve"
        THEN Resolved("Err", NoRow, customers, TRUE, FALSE)
        ELSE IF fail = "get_billing_customer"
        THEN Resolved("Err", NoRow, customers, by_id, FALSE)
        ELSE IF billing_customer # NoRow
        THEN Resolved("Some", billing_customer, customers, by_id, FALSE)
        ELSE IF customer.email = NoEmail
        THEN Resolved("None", NoRow, customers, by_id, FALSE)
        ELSE IF fail = "get_user_by_email"
        THEN Resolved("Err", NoRow, customers, by_id, FALSE)
        ELSE IF user = NoRow
        THEN Resolved("None", NoRow, customers, by_id, FALSE)
        ELSE IF fail = "create_billing_customer"
        THEN Resolved("Err", NoRow, customers, by_id, FALSE)
        ELSE Resolved("Some", created, customers \cup {created}, by_id, TRUE)

\* A mutation: no lookup before the create.
find_or_create_no_lookup(customers, customer_or_id, fail) ==
    LET by_id == customer_or_id.tag = "Id"
        customer ==
            IF by_id THEN Customer_retrieve(customer_or_id.id)
            ELSE customer_or_id.customer
        user == get_user_by_email(customer.email)
        created ==
            create_billing_customer(customers,
                [user_id |-> user.id, stripe_customer_id |-> customer.id])
    IN  IF by_id /\ fail = "retrieve"
        THEN Resolved("Err", NoRow, customers, TRUE, FALSE)
        ELSE IF customer.email = NoEmail
        THEN Resolved("None", NoRow, customers, by_id, FALSE)
        ELSE IF fail = "get_user_by_email"
        THEN Resolved("Err", NoRow, customers, by_id, FALSE)
        ELSE IF user = NoRow
        THEN Resolved("None", NoRow, customers, by_id, FALSE)
        ELSE IF fail = "create_billing_customer"
        THEN Resolved("Err", NoRow, customers, by_id, FALSE)
        ELSE Resolved("Some", created, customers \cup {created}, by_id, TRUE)

\* A mutation: a row is created whether or not a user has the customer's
\* e-mail address.
find_or_create_any_user(customers, customer_or_id, fail) ==
    LET customer_id ==
            IF customer_or_id.tag = "Id" THEN customer_or_id.id
            ELSE customer_or_id.customer.id
        billing_customer ==
            get_billing_customer_by_stripe_customer_id(customers, customer_id)
        by_id == customer_or_id.tag = "Id"
        customer ==
            IF by_id THEN Customer_retrieve(customer_or_id.id)
            ELSE customer_or_id.customer
        user == get_user_by_email(customer.email)
        created ==
            create_billing_customer(customers,
                [user_id |-> user.id, stripe_customer_id |-> customer.id])
    IN  IF fail = "get_billing_customer"
        THEN Resolved("Err", NoRow, customers, FALSE, FALSE)
        ELSE IF billing_customer # NoRow
        THEN Resolved("Some", billing_customer, customers, FALSE, FALSE)
        ELSE IF by_id /\ fail = "retrieve"
        THEN Resolved("Err", NoRow, customers, TRUE, FALSE)
        ELSE IF customer.email = NoEmail
        THEN Resolved("None", NoRow, customers, by_id, FALSE)
        ELSE IF fail = "get_user_by_email"
        THEN Resolved("Err", NoRow, customers, by_id, FALSE)
        ELSE IF fail = "create_billing_customer"
        THEN Resolved("Err", NoRow, customers, by_id, FALSE)
        ELSE Resolved("Some", created, customers \cup {created}, by_id, TRUE)

find_or_create_billing_customer(customers, customer_or_id, fail) ==
    LET customer_id ==
            IF customer_or_id.tag = "Id" THEN customer_or_id.id
            ELSE customer_or_id.customer.id
        billing_customer ==
            get_billing_customer_by_stripe_customer_id(customers, customer_id)
        by_id == customer_or_id.tag = "Id"
        customer ==
            IF by_id THEN Customer_retrieve(customer_or_id.id)
            ELSE customer_or_id.customer
        user == get_user_by_email(customer.email)
        created ==
            create_billing_customer(customers,
                [user_id |-> user.id, stripe_customer_id |-> customer.id])
    IN  IF fail = "get_billing_customer"
        THEN Resolved("Err", NoRow, customers, FALSE, FALSE)
        ELSE IF billing_customer # NoRow
        THEN Resolved("Some", billing_customer, customers, FALSE, FALSE)
        ELSE IF by_id /\ fail = "retrieve"
        THEN Resolved("Err", NoRow, customers, TRUE, FALSE)
        ELSE IF customer.email = NoEmail
        THEN Resolved("None", NoRow, customers, by_id, FALSE)
        ELSE IF fail = "get_user_by_email"
        THEN Resolved("Err", NoRow, customers, by_id, FALSE)
        ELSE IF user = NoRow
        THEN Resolved("None", NoRow, customers, by_id, FALSE)
        ELSE IF fail = "create_billing_customer"
        THEN Resolved("Err", NoRow, customers, by_id, FALSE)
        ELSE Resolved("Some", created, customers \cup {created}, by_id, TRUE)

(***************************************************************************)
(* The event handlers.  A result holds ok (the handler returned Ok), the   *)
(* two tables after the call, and what the resolver did.                   *)
(***************************************************************************)
Handled(handler, ok, resolved, subscriptions, upserted) ==
    [handler |-> handler, ok |-> ok, outcome |-> resolved.outcome,
     row |-> resolved.row, retrieved |-> resolved.retrieved,
     created |-> resolved.created, customers |-> resolved.customers,
     subscriptions |-> subscriptions, upserted |-> upserted]

NotResolved(customers) == Resolved("NotCalled", NoRow, customers, FALSE, FALSE)

\* A mutation: "not found" is an error for a customer event too.
handle_customer_event_strict(customers, subscriptions, event, fail) ==
    IF event.object.kind # "Customer"
    THEN Handled("customer", FALSE, NotResolved(customers), subscriptions, FALSE)
    ELSE LET resolved ==
                 find_or_create_billing_customer(customers,
                     ExpandableObject(event.object.customer), fail)
         IN  Handled("customer", resolved.outcome = "Some", resolved,
                     subscriptions, FALSE)

handle_customer_event(customers, subscriptions, event, fail) ==
    IF event.object.kind # "Customer"
    THEN Handled("customer", FALSE, NotResolved(customers), subscriptions, FALSE)
    ELSE LET resolved ==
                 find_or_create_billing_customer(customers,
                     ExpandableObject(event.object.customer), fail)
         IN  Handled("customer", resolved.outcome # "Err", resolved,
                     subscriptions, FALSE)

\* CreateBillingSubscriptionParams, as the subscription handler fills it.
\* A mutation: the user's id in the place of the billing customer's.
ParamsWithUserId(billing_customer, subscription) ==
    [billing_customer_id |-> billing_customer.user_id,
     stripe_subscription_id |-> subscription.id,
     stripe_subscription_status |-> From(subscription.status)]

\* A mutation: the status left at the enum's default.
ParamsWithDefaultStatus(billing_customer, subscription) ==
    [billing_customer_id |-> billing_customer.id,
     stripe_subscription_id |-> subscription.id,
     stripe_subscription_status |-> "incomplete"]

CreateBillingSubscriptionParams(billing_customer, subscription) ==
    [billing_customer_id |-> billing_customer.id,
     stripe_subscription_id |-> subscription.id,
     stripe_subscription_status |-> From(subscription.status)]

\* A mutation: a plain insert in the place of the upsert.
insert_billing_subscription(subscriptions, params) ==
    subscriptions \cup
        { [id |-> NextId(subscriptions),
           billing_customer_id |-> params.billing_customer_id,
           stripe_subscription_id |-> params.stripe_subscription_id,
           stripe_subscription_status |-> params.stripe_subscription_status] }

\* The write the subscription handler asks of the storage layer.
store_subscription(subscriptions, params) ==
    upsert_billing_subscription_by_stripe_subscription_id(subscriptions, params)

\* A mutation: a subscription event whose customer cannot be resolved is
\* skipped without an error, as a customer event is.
handle_subscription_event_lenient(customers, subscriptions, event, fail) ==
    IF event.object.kind # "Subscription"
    THEN Handled("subscription", FALSE, NotResolved(customers), subscriptions,
                 FALSE)
    ELSE LET subscription == event.object.subscription
             resolved ==
                 find_or_create_billing_customer(customers,
                     subscription.customer, fail)
         IN  IF resolved.outcome # "Some"
             THEN Handled("subscription", resolved.outcome = "None", resolved,
                          subscriptions, FALSE)
             ELSE IF fail = "upsert_billing_subscription"
             THEN Handled("subscription", FALSE, resolved, subscriptions, FALSE)
             ELSE Handled("subscription", TRUE, resolved,
                     store_subscription(subscriptions,
                         CreateBillingSubscriptionParams(resolved.row,
                                                         subscription)),
                     TRUE)

handle_customer_subscription_event(customers, subscriptions, event, fail) ==
    IF event.object.kind # "Subscription"
    THEN Handled("subscription", FALSE, NotResolved(customers), subscriptions,
                 FALSE)
    ELSE LET subscription == event.object.subscription
             resolved ==
                 find_or_create_billing_customer(customers,
                     subscription.customer, fail)
         IN  IF resolved.outcome # "Some"
             THEN Handled("subscription", FALSE, resolved, subscriptions, FALSE)
             ELSE IF fail = "upsert_billing_subscription"
             THEN Handled("subscription", FALSE, resolved, subscriptions, FALSE)
             ELSE Handled("subscription", TRUE, resolved,
                     store_subscription(subscriptions,
                         CreateBillingSubscriptionParams(resolved.row,
                                                         subscription)),
                     TRUE)

\* The match on event.type_ in the for loop of poll_stripe_events.
Dispatch(customers, subscriptions, event, fail) ==
    IF event.type_ = CustomerCreated
    THEN handle_customer_event(customers, subscriptions, event, fail)
    ELSE IF event.type_ \in SubscriptionEventTypes
    THEN handle_customer_subscription_event(customers, subscriptions, event, fail)
    ELSE Handled("ignored", TRUE, NotResolved(customers), subscriptions, FALSE)

\* A mutation: `?` in the place of `.log_err()`.
question_mark(result) == result.ok

\* `.log_err()` on a handler's result: does the for loop go on after it?
log_err(result) == TRUE

\* A mutation: the task's loop ends with the first walk that fails.
unwrap_poll(result) == result = "ok"

\* `.log_err()` on the result of poll_stripe_events: does the task's loop go
\* on after it?
log_err_poll(result) == TRUE

(***************************************************************************)
(* manage_billing_subscription: the request handler that opens a billing   *)
(* portal session with a cancellation flow for a subscription.  Its reads  *)
(* of the store are modelled from their names and signatures.              *)
(***************************************************************************)
NoId == 0
NoSession == [customer |-> "", subscription_cancel |-> ""]

\* The github ids of the users, and one of nobody.
GithubUserIds == {101, 102, 103}
get_user_by_github_user_id(github_user_id) ==
    LET user_id ==
            CASE github_user_id = 101 -> 11
              [] github_user_id = 102 -> 12
              [] OTHER -> 0
    IN  IF \E u \in Users : u.id = user_id
        THEN CHOOSE u \in Users : u.id = user_id
        ELSE NoRow

\* What get_billing_customer_by_user_id may answer: a row of the user, or
\* None when there is no such row.
get_billing_customer_by_user_id(customers, user_id) ==
    IF \E c \in customers : c.user_id = user_id
    THEN { c \in customers : c.user_id = user_id }
    ELSE {NoRow}

get_billing_subscription_by_id(subscriptions, id) ==
    IF \E r \in subscriptions : r.id = id
    THEN CHOOSE r \in subscriptions : r.id = id
    ELSE NoRow

\* The active subscriptions of the customers of a user.
get_active_billing_subscriptions(customers, subscriptions, user_id) ==
    { r \in subscriptions :
        /\ r.stripe_subscription_status = "active"
        /\ \E c \in customers :
              c.id = r.billing_customer_id /\ c.user_id = user_id }

\* ManageBillingSubscriptionBody.
ManageBillingSubscriptionBody(github_user_id, subscription_id) ==
    [github_user_id |-> github_user_id, intent |-> "cancel",
     subscription_id |-> subscription_id]

\* The first `?` of manage_billing_subscription that returns an error, if the
\* handler gets to it.
ManageFailurePoints ==
    {"none", "get_user_by_github_user_id", "get_billing_customer_by_user_id",
     "get_billing_subscription", "BillingPortalSession::create"}

\* Result<Json<ManageBillingSubscriptionResponse>>, with what the handler
\* read on the way and the session it asked the provider for.
Managed(body, ok, customer, subscription, session) ==
    [body |-> body, ok |-> ok, customer |-> customer,
     subscription |-> subscription, session |-> session]

\* The handler. `client` is app.stripe_client being Some, `customer` the
\* answer of get_billing_customer_by_user_id.
manage_billing_subscription(customers, subscriptions, client, body, customer, fail) ==
    LET user == get_user_by_github_user_id(body.github_user_id)
        active ==
            get_active_billing_subscriptions(customers, subscriptions, user.id)
        subscription ==
            IF body.subscription_id # NoId
            THEN get_billing_subscription_by_id(subscriptions,
                                                body.subscription_id)
            ELSE IF Cardinality(active) = 1
            THEN CHOOSE r \in active : TRUE
            ELSE NoRow
        Failed == Managed(body, FALSE, NoRow, NoRow, NoSession)
    IN  IF fail = "get_user_by_github_user_id" \/ user = NoRow
        THEN Failed
        ELSE IF ~client
        THEN Failed
        ELSE IF fail = "get_billing_customer_by_user_id" \/ customer = NoRow
        THEN Failed
        ELSE IF fail = "get_billing_subscription" \/ subscription = NoRow
        THEN Managed(body, FALSE, customer, NoRow, NoSession)
        ELSE IF fail = "BillingPortalSession::create"
        THEN Managed(body, FALSE, customer, subscription, NoSession)
        ELSE Managed(body, TRUE, customer, subscription,
                     [customer |-> customer.stripe_customer_id,
                      subscription_cancel |->
                          subscription.stripe_subscription_id])

VARIABLES
    stripe_client,          \* app.stripe_client is Some
    pc,                     \* where the background task stands
    feedPages,              \* pages in the provider's feed during this walk
    feed,                   \* the pages of the feed listed so far
    events,                 \* events.data of the last response
    has_more,               \* events.has_more of the last response
    next_event,             \* position of the for loop in events.data
    requested,              \* list requests made by this walk
    dispatched,             \* ids of the events dispatched by this walk
    billing_customers,      \* the billing_customers table
    billing_subscriptions,  \* the billing_subscriptions table
    last,                   \* what the last dispatched event did
    poll_result,            \* what the last finished walk returned
    removed,                \* history: position in the page of the first
                            \* event whose handling failed, 0 if none
    shadow_customers,       \* history: the tables as the page makes them
    shadow_subscriptions,   \* without that event
    in_progress,            \* history: calls of poll_stripe_events that have
                            \* begun and have not returned
    resolvers,              \* the calls of find_or_create_billing_customer
                            \* that run side by side, each with its position
    portal                  \* what manage_billing_subscription answered to
                            \* the request being served

vars ==
    <<stripe_client, pc, feedPages, feed, events, has_more, next_event,
      requested, dispatched, billing_customers, billing_subscriptions,
      last, poll_result, removed, shadow_customers, shadow_subscriptions,
      in_progress, resolvers, portal>>

walk == <<feedPages, feed, events, has_more, next_event, requested, dispatched>>
tables == <<billing_customers, billing_subscriptions>>
shadow == <<removed, shadow_customers, shadow_subscriptions>>

NoEvent == Event("", "", [kind |-> ""])
NoLast ==
    [event |-> NoEvent,
     handled |-> Handled("none", TRUE, NotResolved({}), {}, FALSE)]

\* The concurrent callers of the resolver, and a caller that is not calling.
Resolvers == 1..MaxResolvers
NoResolution ==
    [pc |-> "idle", customer_or_id |-> ExpandableId(""), missed |-> FALSE,
     outcome |-> "", row |-> NoRow]

\* No request is being served.
NoPortal == Managed(ManageBillingSubscriptionBody(0, NoId), FALSE, NoRow, NoRow,
                    NoSession)

Polling == pc \in {"list", "for"}
Idle == pc = "sleep"

\* A mutation: the timer is an interval that runs beside the walk instead of
\* a sleep awaited after it.
SleepOverAnytime == pc \in {"sleep", "list", "for"}

\* `executor.sleep(POLL_EVENTS_INTERVAL).await` can return: the loop stands at
\* the sleep, which it reaches only when the awaited walk has returned.
SleepOver == pc = "sleep"

Init ==
    /\ stripe_client \in BOOLEAN
    /\ pc = "start"
    /\ feedPages = 1
    /\ feed = <<>>
    /\ events = <<>>
    /\ has_more = FALSE
    /\ next_event = 1
    /\ requested = 0
    /\ dispatched = <<>>
    /\ billing_customers = {}
    /\ billing_subscriptions = {}
    /\ last = NoLast
    /\ poll_result = "none"
    /\ removed = 0
    /\ shadow_customers = {}
    /\ shadow_subscriptions = {}
    /\ in_progress = 0
    /\ resolvers = [p \in Resolvers |-> NoResolution]
    /\ portal = NoPortal

\* poll_stripe_events is called: a walk of the feed as the provider holds it
\* now begins.
BeginWalk ==
    /\ pc' = "list"
    /\ feedPages' \in 1..MaxPages
    /\ feed' = <<>>
    /\ events' = <<>>
    /\ has_more' = FALSE
    /\ next_event' = 1
    /\ requested' = 0
    /\ dispatched' = <<>>
    /\ last' = NoLast
    /\ removed' = 0
    /\ shadow_customers' = billing_customers
    /\ shadow_subscriptions' = billing_subscriptions
    /\ in_progress' = in_progress + 1
    /\ UNCHANGED <<stripe_client, tables, poll_result, resolvers, portal>>

\* poll_stripe_events returns `result` to the task's loop, which logs an
\* error and goes to sleep.
Return(result) ==
    /\ poll_result' = result
    /\ pc' = IF log_err_poll(result) THEN "sleep" ELSE "exited"
    /\ in_progress' = in_progress - 1

\* A mutation: the task is spawned whether or not there is a client.
StartWithoutClient ==
    /\ pc = "start"
    /\ BeginWalk

\* A mutation: the spawned task sleeps before its first walk.
StartAsleep ==
    /\ pc = "start"
    /\ pc' = IF stripe_client THEN "sleep" ELSE "disabled"
    /\ UNCHANGED <<stripe_client, walk, tables, last, poll_result, shadow,
                   in_progress, resolvers, portal>>

\* poll_stripe_events_periodically: without a client nothing is spawned; with
\* one, the task starts with a walk.
Start ==
    /\ pc = "start"
    /\ IF stripe_client
       THEN BeginWalk
       ELSE /\ pc' = "disabled"
            /\ UNCHANGED <<stripe_client, walk, tables, last, poll_result, shadow,
                           in_progress, resolvers, portal>>

\* The pages the provider may hold at position p of a feed of n pages: a page
\* followed by another is full.
PagesAt(p, n) ==
    IF p < n
    THEN { s \in Pages(StripeEvents, PageLimit) : Len(s) = PageLimit }
    ELSE Pages(StripeEvents, PageLimit)

\* stripe::Event::list answers with the page at position p: a page is drawn
\* the first time it is listed and is the same page every time it is asked
\* for again during the walk.
ListEventsOk ==
    /\ pc = "list"
    /\ requested < MaxRequests
    /\ LET p == FirstPage
       IN  /\ \E page \in PagesAt(p, feedPages) :
                 /\ p \in DOMAIN feed => page = feed[p]
                 /\ feed' = [q \in DOMAIN feed \cup {p} |->
                                IF q = p THEN page ELSE feed[q]]
                 /\ events' = page
           /\ has_more' = (p < feedPages)
    /\ next_event' = 1
    /\ requested' = requested + 1
    /\ pc' = "for"
    /\ removed' = 0
    /\ shadow_customers' = billing_customers
    /\ shadow_subscriptions' = billing_subscriptions
    /\ UNCHANGED <<stripe_client, feedPages, dispatched, tables, last, poll_result,
                   in_progress, resolvers, portal>>

\* A mutation: a listing that fails is logged and asked for again by the same
\* walk.
ListEventsErrRetried ==
    /\ pc = "list"
    /\ requested < MaxRequests
    /\ requested' = requested + 1
    /\ UNCHANGED <<stripe_client, pc, feedPages, feed, events, has_more,
                   next_event, dispatched, tables, last, poll_result, shadow,
                   in_progress, resolvers, portal>>

\* stripe::Event::list fails: `?` returns the error from poll_stripe_events.
ListEventsErr ==
    /\ pc = "list"
    /\ requested < MaxRequests
    /\ requested' = requested + 1
    /\ Return("err")
    /\ UNCHANGED <<stripe_client, feedPages, feed, events, has_more, next_event,
                   dispatched, tables, last, shadow, resolvers, portal>>

\* One turn of the for loop: the event is handled and the result logged.
\* The shadow tables follow the same page from the same tables with the
\* first event of the page that fails left out.
DispatchEvent ==
    /\ pc = "for"
    /\ next_event <= Len(events)
    /\ \E fail \in FailurePoints :
          LET event == events[next_event]
              handled ==
                  Dispatch(billing_customers, billing_subscriptions, event, fail)
              absent == ~handled.ok /\ removed = 0
              shadowed ==
                  Dispatch(shadow_customers, shadow_subscriptions, event, fail)
          IN  /\ billing_customers' = handled.customers
              /\ billing_subscriptions' = handled.subscriptions
              /\ last' = [event |-> event, handled |-> handled]
              /\ dispatched' = Append(dispatched, event.id)
              /\ removed' = IF absent THEN next_event ELSE removed
              /\ shadow_customers' =
                     IF absent THEN shadow_customers ELSE shadowed.customers
              /\ shadow_subscriptions' =
                     IF absent THEN shadow_subscriptions
                     ELSE shadowed.subscriptions
              /\ IF log_err(handled)
                 THEN /\ next_event' = next_event + 1
                      /\ UNCHANGED <<pc, poll_result, in_progress>>
                 ELSE /\ UNCHANGED next_event
                      /\ Return("err")
    /\ UNCHANGED <<stripe_client, feedPages, feed, events, has_more, requested,
                   resolvers, portal>>

\* The for loop is over: `if !events.has_more { break; }`.
EndOfPage ==
    /\ pc = "for"
    /\ next_event > Len(events)
    /\ IF has_more
       THEN /\ pc' = "list"
            /\ UNCHANGED <<poll_result, in_progress>>
       ELSE Return("ok")
    /\ UNCHANGED <<stripe_client, walk, tables, last, shadow, resolvers, portal>>

\* executor.sleep(POLL_EVENTS_INTERVAL) is over: the loop calls
\* poll_stripe_events again.
TimerExpire ==
    /\ SleepOver
    /\ BeginWalk

Next ==
    \/ Start
    \/ ListEventsOk
    \/ ListEventsErr
    \/ DispatchEvent
    \/ EndOfPage
    \/ TimerExpire

Spec == Init /\ [][Next]_vars

\* executor.sleep comes back: the timer fires.
FairSpec == Spec /\ WF_vars(TimerExpire)

TypeOK ==
    /\ stripe_client \in BOOLEAN
    /\ pc \in {"start", "disabled", "list", "for", "sleep", "exited"}
    /\ feedPages \in 1..MaxPages
    /\ requested \in 0..MaxRequests
    /\ next_event \in 1..(PageLimit + 1)
    /\ poll_result \in {"none", "ok", "err"}
    /\ \A c \in billing_customers : c.stripe_customer_id \in CustomerIds
    /\ \A r \in billing_subscriptions :
          /\ r.stripe_subscription_id \in SubscriptionIds
          /\ r.stripe_subscription_status \in StripeSubscriptionStatus

(***************************************************************************)
(* The resolver called by several callers at once.  Each caller runs       *)
(* find_or_create_billing_customer one storage or provider call at a time; *)
(* the calls of different callers interleave.  The poller stands still.    *)
(***************************************************************************)
poller ==
    <<stripe_client, pc, walk, billing_subscriptions, last, poll_result,
      shadow, in_progress, portal>>

\* The inputs a caller may pass: each provider customer, by id or in full.
CustomerRefs ==
    { ExpandableId(c.id) : c \in StripeCustomers } \cup
    { ExpandableObject(c) : c \in StripeCustomers }

\* `customer_id` and `customer` of find_or_create_billing_customer.
CustomerIdOf(customer_or_id) ==
    IF customer_or_id.tag = "Id" THEN customer_or_id.id
    ELSE customer_or_id.customer.id
CustomerOf(customer_or_id) ==
    IF customer_or_id.tag = "Id" THEN Customer_retrieve(customer_or_id.id)
    ELSE customer_or_id.customer

RaceInit ==
    /\ stripe_client = TRUE
    /\ pc = "start"
    /\ feedPages = 1
    /\ feed = <<>>
    /\ events = <<>>
    /\ has_more = FALSE
    /\ next_event = 1
    /\ requested = 0
    /\ dispatched = <<>>
    /\ billing_customers = {}
    /\ billing_subscriptions = {}
    /\ last = NoLast
    /\ poll_result = "none"
    /\ removed = 0
    /\ shadow_customers = {}
    /\ shadow_subscriptions = {}
    /\ in_progress = 0
    /\ portal = NoPortal
    /\ resolvers \in
           [Resolvers ->
               { [pc |-> "lookup", customer_or_id |-> ref, missed |-> FALSE,
                  outcome |-> "", row |-> NoRow] : ref \in CustomerRefs }]

\* Caller p moves on to its next call.
Goes(p, to, missed) ==
    resolvers' = [resolvers EXCEPT ![p].pc = to, ![p].missed = missed]

\* Caller p's call of the resolver returns.
Returns(p, outcome, row) ==
    resolvers' = [resolvers EXCEPT ![p].pc = "done",
                                   ![p].outcome = outcome,
                                   ![p].row = row]

\* get_billing_customer_by_stripe_customer_id(..).await?, and the return of
\* the row it finds.
RaceLookup(p) ==
    /\ resolvers[p].pc = "lookup"
    /\ \E failed \in BOOLEAN :
          LET billing_customer ==
                  get_billing_customer_by_stripe_customer_id(
                      billing_customers,
                      CustomerIdOf(resolvers[p].customer_or_id))
          IN  IF failed
              THEN Returns(p, "Err", NoRow)
              ELSE IF billing_customer # NoRow
              THEN Returns(p, "Some", billing_customer)
              ELSE Goes(p, IF resolvers[p].customer_or_id.tag = "Id"
                           THEN "retrieve" ELSE "get_user", TRUE)
    /\ UNCHANGED <<poller, billing_customers>>

\* Customer::retrieve(..).await? for an input that is an id.
RaceRetrieve(p) ==
    /\ resolvers[p].pc = "retrieve"
    /\ \E failed \in BOOLEAN :
          IF failed
          THEN Returns(p, "Err", NoRow)
          ELSE Goes(p, "get_user", TRUE)
    /\ UNCHANGED <<poller, billing_customers>>

\* The e-mail address of the customer and get_user_by_email(..).await?.
RaceGetUser(p) ==
    /\ resolvers[p].pc = "get_user"
    /\ \E failed \in BOOLEAN :
          LET customer == CustomerOf(resolvers[p].customer_or_id)
          IN  IF customer.email = NoEmail
              THEN Returns(p, "None", NoRow)
              ELSE IF failed
              THEN Returns(p, "Err", NoRow)
              ELSE IF get_user_by_email(customer.email) = NoRow
              THEN Returns(p, "None", NoRow)
              ELSE Goes(p, "create", TRUE)
    /\ UNCHANGED <<poller, billing_customers>>

\* A mutation: the create step is a conditional insert, which returns the
\* row of the customer when another caller has created it meanwhile.
RaceCreateIfAbsent(p) ==
    /\ resolvers[p].pc = "create"
    /\ LET customer == CustomerOf(resolvers[p].customer_or_id)
           billing_customer ==
               get_billing_customer_by_stripe_customer_id(billing_customers,
                                                          customer.id)
           created ==
               create_billing_customer(billing_customers,
                   [user_id |-> get_user_by_email(customer.email).id,
                    stripe_customer_id |-> customer.id])
       IN  IF billing_customer # NoRow
           THEN /\ Returns(p, "Some", billing_customer)
                /\ UNCHANGED billing_customers
           ELSE /\ Returns(p, "Some", created)
                /\ billing_customers' = billing_customers \cup {created}
    /\ UNCHANGED poller

\* create_billing_customer(..).await? and the return of the new row.
RaceCreate(p) ==
    /\ resolvers[p].pc = "create"
    /\ \E failed \in BOOLEAN :
          LET customer == CustomerOf(resolvers[p].customer_or_id)
              created ==
                  create_billing_customer(billing_customers,
                      [user_id |-> get_user_by_email(customer.email).id,
                       stripe_customer_id |-> customer.id])
          IN  IF failed
              THEN /\ Returns(p, "Err", NoRow)
                   /\ UNCHANGED billing_customers
              ELSE /\ Returns(p, "Some", created)
                   /\ billing_customers' = billing_customers \cup {created}
    /\ UNCHANGED poller

RaceLookupStep == \E p \in Resolvers : RaceLookup(p)
RaceRetrieveStep == \E p \in Resolvers : RaceRetrieve(p)
RaceGetUserStep == \E p \in Resolvers : RaceGetUser(p)
RaceCreateStep == \E p \in Resolvers : RaceCreate(p)

RaceNext ==
    \/ RaceLookupStep
    \/ RaceRetrieveStep
    \/ RaceGetUserStep
    \/ RaceCreateStep

RaceSpec == RaceInit /\ [][RaceNext]_vars

(***************************************************************************)
(* Properties.                                                             *)
(***************************************************************************)
Flatten(pages) ==
    LET RECURSIVE Cat(_)
        Cat(k) == IF k = 0 THEN <<>> ELSE Cat(k - 1) \o pages[k]
    IN  Cat(Len(pages))

Finished == pc = "sleep"
DispatchStep == pc = "for" /\ next_event <= Len(events)

\* C1: a walk over a feed of feedPages pages, of which only the last reports
\* has_more = false, ends after exactly feedPages list requests: it never
\* makes more requests than there are pages, it is about to make one only
\* while pages remain, and a walk that returned Ok has made feedPages of them.
C1_RequestsExactlyTheFeed ==
    /\ requested <= feedPages
    /\ pc = "list" => requested < feedPages
    /\ (Finished /\ poll_result = "ok") => requested = feedPages

\* C2: within one walk no event is dispatched twice, and a walk that returned
\* Ok has listed every page of the feed and dispatched each of their events
\* once, in order.
C2_EveryEventDispatchedOnce ==
    /\ \A a, b \in DOMAIN dispatched :
          a # b => dispatched[a] # dispatched[b]
    /\ (Finished /\ poll_result = "ok") =>
          /\ DOMAIN feed = 1..feedPages
          /\ dispatched = [k \in DOMAIN Flatten(feed) |-> Flatten(feed)[k].id]

Effect(before, after) == <<after \ before, before \ after>>
SameEffect ==
    /\ Effect(billing_customers, billing_customers') =
           Effect(shadow_customers, shadow_customers')
    /\ Effect(billing_subscriptions, billing_subscriptions') =
           Effect(shadow_subscriptions, shadow_subscriptions')
\* The for loop handles the event it stands at and moves to the next one.
LoopGoesOn ==
    /\ dispatched' = Append(dispatched, events[next_event].id)
    /\ pc' = "for"
    /\ next_event' = next_event + 1

\* C3, as claimed: whatever makes the handling of an event of a page fail,
\* the for loop goes on to every later event of the page, and what each later
\* event does to the two tables is what it does had the failed event not
\* been in the page.
C3_LaterEventsAsIfAbsent ==
    [][DispatchStep =>
          /\ LoopGoesOn
          /\ removed # 0 => SameEffect]_vars

\* C3, amended: the for loop goes on after a failed event; a failed event
\* leaves billing_subscriptions as it was, and billing_customers too unless
\* it is a subscription event whose upsert failed after the resolver had
\* created the customer's row, which stays; and after a failed event that
\* wrote nothing each later event does to the tables what it does had the
\* failed event not been in the page.
C3_FailureIsolated ==
    [][DispatchStep =>
          /\ LoopGoesOn
          /\ ~last'.handled.ok =>
                /\ billing_subscriptions' = billing_subscriptions
                /\ \/ billing_customers' = billing_customers
                   \/ /\ last'.handled.handler = "subscription"
                      /\ last'.handled.created
                      /\ billing_customers' =
                             billing_customers \cup {last'.handled.row}
          /\ ( /\ removed # 0
               /\ billing_customers = shadow_customers
               /\ billing_subscriptions = shadow_subscriptions ) => SameEffect]_vars

\* An event after a failed one of its page has been handled and has written
\* a subscription.
C3_Witness ==
    /\ pc = "for"
    /\ removed # 0
    /\ next_event > removed + 1
    /\ last.handled.ok
    /\ last.handled.upserted

\* C4: billing_subscriptions never holds two rows with the same
\* stripe_subscription_id.
C4_OneRowPerSubscriptionId ==
    \A a, b \in billing_subscriptions :
        a.stripe_subscription_id = b.stripe_subscription_id => a = b

\* Two events for sub_1 have been handled with success, one after the other.
C4_Witness ==
    /\ dispatched = <<"evt_5", "evt_4">>
    /\ removed = 0
    /\ last.handled.upserted
    /\ Cardinality(billing_subscriptions) = 1

\* C5: when a subscription event is handled with success, the table then
\* holds one row for its subscription id, with the mapped status of the event
\* and the id of the billing customer resolved for the event's customer; the
\* row has the id of the row there was for that subscription id, or a new id
\* when there was none; the other rows are as they were.
C5_UpsertedRow ==
    [][(DispatchStep /\ last'.handled.upserted) =>
          LET subscription == events[next_event].object.subscription
              customer_id ==
                  IF subscription.customer.tag = "Id"
                  THEN subscription.customer.id
                  ELSE subscription.customer.customer.id
              before ==
                  { r \in billing_subscriptions :
                      r.stripe_subscription_id = subscription.id }
              after ==
                  { r \in billing_subscriptions' :
                      r.stripe_subscription_id = subscription.id }
          IN  /\ Cardinality(after) = 1
              /\ last'.handled.row \in billing_customers'
              /\ last'.handled.row.stripe_customer_id = customer_id
              /\ \A r \in after :
                    /\ r.stripe_subscription_status \in StripeSubscriptionStatus
                    /\ r.stripe_subscription_status = From(subscription.status)
                    /\ r.billing_customer_id = last'.handled.row.id
                    /\ \A o \in before : r.id = o.id
                    /\ before = {} =>
                          r.id \notin { o.id : o \in billing_subscriptions }
              /\ billing_subscriptions' \ after = billing_subscriptions \ before]_vars

\* The row of sub_1, inserted for cus_1 by evt_4, has been updated in place
\* by evt_5 to the customer cus_2 and the status past_due.
C5_Witness ==
    /\ dispatched = <<"evt_4", "evt_5">>
    /\ removed = 0
    /\ last.handled.upserted
    /\ \E r \in billing_subscriptions :
          /\ r.id = 1
          /\ r.stripe_subscription_status = "past_due"
          /\ r.billing_customer_id = last.handled.row.id
          /\ last.handled.row.stripe_customer_id = "cus_2"

\* C6: in every state the poller reaches, the resolver called for a provider
\* customer that has a row (by its bare id or with its record, and whichever
\* later call would fail) returns that row, fetches nothing from the provider,
\* creates nothing and leaves the table as it is.
C6_FastPath ==
    \A c \in billing_customers :
        \A customer_or_id \in
              { ExpandableId(c.stripe_customer_id),
                ExpandableObject(StripeCustomer(c.stripe_customer_id)) } :
            \A fail \in FailurePoints \ {"get_billing_customer"} :
                find_or_create_billing_customer(billing_customers,
                                                customer_or_id, fail)
                    = Resolved("Some", c, billing_customers, FALSE, FALSE)

\* A subscription event that names cus_1 by its bare id has been resolved to
\* the row cus_1 had already.
C6_Witness ==
    /\ last.event.id = "evt_4"
    /\ last.handled.outcome = "Some"
    /\ last.handled.row.stripe_customer_id = "cus_1"
    /\ ~last.handled.retrieved
    /\ ~last.handled.created

\* C7: billing_customers never holds two rows with the same
\* stripe_customer_id, and in every state the poller reaches two calls of the
\* resolver with the same input, one after the other, return the same value,
\* the second creates nothing, and the first creates at most one row.
C7_ResolveIdempotent ==
    /\ \A a, b \in billing_customers :
          a.stripe_customer_id = b.stripe_customer_id => a = b
    /\ \A id \in CustomerIds :
          \A customer_or_id \in
                { ExpandableId(id), ExpandableObject(StripeCustomer(id)) } :
              LET first ==
                      find_or_create_billing_customer(billing_customers,
                          customer_or_id, "none")
                  second ==
                      find_or_create_billing_customer(first.customers,
                          customer_or_id, "none")
              IN  /\ second.outcome = first.outcome
                  /\ second.row = first.row
                  /\ ~second.created
                  /\ second.customers = first.customers
                  /\ Cardinality(first.customers \ billing_customers) <= 1
                  /\ billing_customers \subseteq first.customers

\* evt_1 has been dispatched a second time and resolved to the one row cus_1
\* has.
C7_Witness ==
    /\ \E a, b \in DOMAIN dispatched :
          a # b /\ dispatched[a] = "evt_1" /\ dispatched[b] = "evt_1"
    /\ last.event.id = "evt_1"
    /\ last.handled.outcome = "Some"
    /\ ~last.handled.created
    /\ Cardinality({ c \in billing_customers :
                       c.stripe_customer_id = "cus_1" }) = 1

\* A customer-created event with the customer's record in it, for a customer
\* with no e-mail or with an e-mail no user has.
Unlinkable(event) ==
    /\ event.type_ = CustomerCreated
    /\ event.object.kind = "Customer"
    /\ \/ event.object.customer.email = NoEmail
       \/ get_user_by_email(event.object.customer.email) = NoRow

\* C8: handling a customer-created event of a customer with no e-mail, or
\* with an e-mail of no user, changes neither table and creates no row; unless
\* a storage call fails, the resolver returns None and the handler Ok; and
\* the walk goes on, nothing is returned to the task's loop.
C8_UnlinkableCustomerNoOp ==
    [][(DispatchStep /\ Unlinkable(events[next_event])) =>
          /\ UNCHANGED tables
          /\ ~last'.handled.created
          /\ last'.handled.outcome # "Err" =>
                (last'.handled.outcome = "None" /\ last'.handled.ok)
          /\ pc' = "for"
          /\ UNCHANGED poll_result]_vars

\* A walk of the page <<evt_2, evt_3>> has returned Ok with both tables empty.
C8_Witness ==
    /\ Finished
    /\ poll_result = "ok"
    /\ dispatched = <<"evt_2", "evt_3">>
    /\ removed = 0
    /\ last.handled.outcome = "None"
    /\ last.handled.ok
    /\ billing_customers = {}
    /\ billing_subscriptions = {}

\* C9: the billing_customer_id of every row of billing_subscriptions is the id
\* of a row of billing_customers.
C9_ReferentialIntegrity ==
    \A r \in billing_subscriptions :
        \E c \in billing_customers : c.id = r.billing_customer_id

\* The subscription row points at the second of two customer rows.
C9_Witness ==
    /\ Cardinality(billing_customers) = 2
    /\ \E r \in billing_subscriptions : r.billing_customer_id = 2

\* C10: the task never ends once started; a walk that ends, with Ok or with
\* an error, leaves the task asleep; and, the timer being fair, a task asleep
\* starts a walk again.
C10_SchedulerSurvives ==
    /\ [](pc # "exited")
    /\ [][(Polling /\ ~Polling') => Idle']_vars
    /\ (Idle ~> Polling)

\* A walk has failed and the task is asleep.
C10_Witness ==
    /\ Idle
    /\ poll_result = "err"


\* C11: no two poll cycles overlap. At most one call of poll_stripe_events is
\* in progress at any time; one is in progress exactly while the task walks
\* the feed, none while it sleeps, and a call begins only when none is in
\* progress.
C11_NoOverlappingWalks ==
    /\ in_progress \in {0, 1}
    /\ Polling <=> in_progress = 1
    /\ Idle => in_progress = 0

\* A second walk is under way after the first one has returned.
C11_Witness ==
    /\ Polling
    /\ in_progress = 1
    /\ poll_result # "none"
    /\ requested > 0

\* C12: when the provider client is absent at start-up no polling loop is
\* spawned: start-up returns normally, no walk ever begins, no request is
\* ever made of the provider (no listing, no Customer::retrieve), no event
\* is dispatched and both tables stay as they were, for ever.
C12_NoClientNoPolling ==
    ~stripe_client =>
        /\ pc \in {"start", "disabled"}
        /\ in_progress = 0
        /\ requested = 0
        /\ feed = <<>>
        /\ dispatched = <<>>
        /\ last = NoLast
        /\ poll_result = "none"
        /\ billing_customers = {}
        /\ billing_subscriptions = {}

\* Start-up has returned without a client.
C12_Witness ==
    /\ ~stripe_client
    /\ pc = "disabled"

\* A step in which stripe::Event::list is called and does not answer with a
\* page.
ListFailed ==
    /\ pc = "list"
    /\ requested' = requested + 1
    /\ pc' # "for"

\* C13: when a page fetch fails the walk returns the failure at once: the
\* failing step itself ends the call with an error, dispatches no event and
\* changes no table, so what the events of the pages listed before it wrote
\* stays; after it the task sleeps, and until the timer starts the next walk
\* it makes no request and dispatches no event.
C13_ListFailureEndsWalk ==
    [][/\ ListFailed =>
            /\ pc' = "sleep"
            /\ poll_result' = "err"
            /\ in_progress' = 0
            /\ UNCHANGED <<dispatched, tables, last>>
       /\ (Idle /\ poll_result = "err") =>
            /\ UNCHANGED tables
            /\ requested' = 0
            /\ dispatched' = <<>>
            /\ pc' = "list"]_vars

\* The second listing of a walk failed after the events of the first page
\* were dispatched and wrote rows: the rows are there while the task sleeps.
C13_Witness ==
    /\ Idle
    /\ poll_result = "err"
    /\ requested = 2
    /\ Len(dispatched) > 0
    /\ billing_subscriptions # {}

\* A turn of the for loop in which Customer::retrieve is called and fails:
\* the handler's result is the one a failing retrieve gives.
FetchFailed ==
    /\ DispatchStep
    /\ LET handled ==
               Dispatch(billing_customers, billing_subscriptions,
                        events[next_event], "retrieve")
       IN  /\ handled.retrieved
           /\ handled.outcome = "Err"
           /\ last'.handled = handled

\* C14, as claimed: a failure of the provider customer fetch propagates out
\* of the walk and ends it early with an error, the events after the failing
\* one not being handled by this walk.
C14_FetchFailureEndsCycle ==
    [][FetchFailed =>
          /\ pc' = "sleep"
          /\ poll_result' = "err"]_vars

\* C14: a failure of the provider customer fetch fails the handling of that
\* one event and no more: the handler returns an error and writes nothing,
\* the error is logged, the walk does not return and the for loop goes on to
\* the event after it.
C14_FetchFailureSkipsEvent ==
    [][FetchFailed =>
          /\ ~last'.handled.ok
          /\ ~last'.handled.created
          /\ ~last'.handled.upserted
          /\ UNCHANGED <<tables, poll_result, in_progress>>
          /\ LoopGoesOn]_vars

\* Customer::retrieve has failed for the first event of a page and the for
\* loop stands at the second.
C14_Witness ==
    /\ pc = "for"
    /\ removed = 1
    /\ next_event = 2
    /\ next_event <= Len(events)
    /\ last.handled.retrieved
    /\ last.handled.outcome = "Err"
    /\ last.handled = Dispatch(billing_customers, billing_subscriptions,
                               events[1], "retrieve")

\* C15: at most one BillingCustomer row per local user: no two rows of
\* billing_customers have the same user_id, also when the provider holds
\* several customers, with different ids, under one e-mail address.
C15_OneCustomerRowPerUser ==
    \A a, b \in billing_customers : a.user_id = b.user_id => a = b

\* C16: the status mapper is a total bijection between the provider's eight
\* subscription statuses and the eight local ones: every provider status maps
\* to the local status of the same name, no two provider statuses map to one
\* local status and every local status is the image of one; the status a
\* subscription event stores is the one of the name the event carries.
C16_StatusMapperBijection ==
    /\ Cardinality(SubscriptionStatus) = 8
    /\ Cardinality(StripeSubscriptionStatus) = 8
    /\ \A s \in SubscriptionStatus :
          /\ From(s) \in StripeSubscriptionStatus
          /\ Variant(From(s)) = s
    /\ \A s, t \in SubscriptionStatus : From(s) = From(t) => s = t
    /\ { From(s) : s \in SubscriptionStatus } = StripeSubscriptionStatus
    /\ last.handled.upserted =>
          \E r \in billing_subscriptions :
             /\ r.stripe_subscription_id = last.event.object.subscription.id
             /\ Variant(r.stripe_subscription_status) =
                    last.event.object.subscription.status

\* A subscription event with the provider's status PastDue was stored as
\* past_due.
C16_Witness ==
    /\ last.handled.upserted
    /\ last.event.object.subscription.status = "PastDue"
    /\ \E r \in billing_subscriptions : r.stripe_subscription_status = "past_due"

\* C17: when the customer of a subscription event resolves to `not found`
\* the handling of the event fails, no subscription row is inserted or
\* updated and no customer row is created; a customer-created event whose
\* customer resolves to `not found` is handled with success and writes
\* nothing either.
C17_NotFoundBySubscriptionFails ==
    [][(DispatchStep /\ last'.handled.outcome = "None") =>
          /\ UNCHANGED tables
          /\ ~last'.handled.created
          /\ ~last'.handled.upserted
          /\ last'.handled.handler \in {"customer", "subscription"}
          /\ last'.handled.handler = "subscription" => ~last'.handled.ok
          /\ last'.handled.handler = "customer" => last'.handled.ok]_vars

\* A customer-created event of a customer of no user was handled with
\* success, and after it a subscription event of the same customer failed
\* with `not found`, the first failure of the page.
C17_Witness ==
    /\ dispatched = <<"evt_3", "evt_6">>
    /\ removed = 2
    /\ last.handled.handler = "subscription"
    /\ last.handled.outcome = "None"
    /\ ~last.handled.ok
    /\ billing_customers = {}
    /\ billing_subscriptions = {}

\* C18: the rows of billing_customers are append-only while the poller
\* runs: a row, once there, stays with the same id, user_id and
\* stripe_customer_id; a new row is created only for a provider customer
\* whose e-mail address is that of a local user, and is that user's.
C18_CustomersAppendOnly ==
    [][/\ billing_customers \subseteq billing_customers'
       /\ \A c \in billing_customers' \ billing_customers :
             /\ StripeCustomer(c.stripe_customer_id).email # NoEmail
             /\ \E u \in Users :
                   /\ u.email_address =
                          StripeCustomer(c.stripe_customer_id).email
                   /\ u.id = c.user_id]_vars

\* A second row was created beside the first, which is still there.
C18_Witness ==
    /\ last.handled.created
    /\ Cardinality(billing_customers) = 2
    /\ \E c \in billing_customers : c.id = 1

\* A step in which a call of poll_stripe_events begins.
WalkBegins == in_progress' = in_progress + 1

\* C19, as claimed: the scheduler enters polling only from idle and only when
\* the timer expires: every walk, the first one after start-up too, begins
\* at the end of a timer wait.
C19_EveryWalkAfterTimerWait ==
    [][WalkBegins => Idle]_vars

\* C19: every walk but the first begins from idle, at the end of a timer
\* wait; the first begins at once when the task is spawned at start-up, with
\* no timer wait before it, and the timer is first waited for when that walk
\* has returned.
C19_FirstWalkAtOnce ==
    [][/\ WalkBegins =>
            \/ Idle /\ poll_result # "none"
            \/ pc = "start" /\ stripe_client /\ poll_result = "none"
       /\ (pc = "start" /\ stripe_client) => (WalkBegins /\ Polling')
       /\ (Idle' /\ ~Idle) => (Polling /\ poll_result' # "none")]_vars

\* The first walk has listed a page and no timer wait has yet begun.
C19_Witness ==
    /\ pc = "for"
    /\ requested = 1
    /\ poll_result = "none"
    /\ in_progress = 1

\* The callers that missed the row of customer id at the lookup and whose
\* call has returned a row.
Creators(id) ==
    { p \in Resolvers :
        /\ resolvers[p].pc = "done"
        /\ resolvers[p].missed
        /\ resolvers[p].outcome = "Some"
        /\ CustomerIdOf(resolvers[p].customer_or_id) = id }

\* C20: the lookup and the create of the resolver are two steps that
\* another caller's steps can come between: every caller that missed the row
\* at the lookup and goes on to the create inserts a row of its own, whatever
\* was created meanwhile. Callers that resolve the same new provider
\* customer at once and all pass the lookup before any creates leave as many
\* rows with that stripe_customer_id as there are callers, two rows for two.
C20_LookupThenCreateRace ==
    \A id \in CustomerIds :
       /\ Cardinality({ c \in billing_customers : c.stripe_customer_id = id })
              = Cardinality(Creators(id))
       /\ \A p, q \in Creators(id) :
             /\ resolvers[p].row \in billing_customers
             /\ resolvers[p].row.stripe_customer_id = id
             /\ p # q => resolvers[p].row # resolvers[q].row

\* Two calls for one new provider customer have returned, each with a row
\* it created: billing_customers holds two rows with one stripe_customer_id.
C20_Witness ==
    /\ \A p \in 1..2 : resolvers[p].pc = "done" /\ resolvers[p].missed
    /\ \E a, b \in billing_customers :
          /\ a # b
          /\ a.stripe_customer_id = b.stripe_customer_id
          /\ resolvers[1].row = a
          /\ resolvers[2].row = b

\* The two tables after the for loop of poll_stripe_events has handled the
\* events of a page, in order, with no call of the provider or the store
\* failing.
RECURSIVE Redeliver(_, _, _)
Redeliver(customers, subscriptions, page) ==
    IF page = <<>>
    THEN [customers |-> customers, subscriptions |-> subscriptions]
    ELSE LET handled == Dispatch(customers, subscriptions, Head(page), "none")
         IN  Redeliver(handled.customers, handled.subscriptions, Tail(page))

\* C21: re-delivery is harmless. From every pair of tables the poller can
\* reach, handling the listed page with no provider or store failure and
\* then handling the same page again leaves both tables as they were after
\* the first time; and when the for loop has handled a whole page with no
\* failure, handling that page again changes nothing.
C21_RedeliveryHarmless ==
    pc = "for" =>
       /\ LET once ==
                  Redeliver(billing_customers, billing_subscriptions, events)
          IN  Redeliver(once.customers, once.subscriptions, events) = once
       /\ (next_event > Len(events) /\ removed = 0) =>
             Redeliver(billing_customers, billing_subscriptions, events) =
                 [customers |-> billing_customers,
                  subscriptions |-> billing_subscriptions]

\* A walk after one that returned Ok has handled the page <<evt_1, evt_5>>
\* with no failure and found the row of evt_5's customer, which only evt_5
\* creates, already there: the tables are the ones one handling of the page
\* makes from empty tables, as the earlier walk left them.
C21_Witness ==
    /\ pc = "for"
    /\ poll_result = "ok"
    /\ dispatched = <<"evt_1", "evt_5">>
    /\ next_event > Len(events)
    /\ removed = 0
    /\ last.handled.upserted
    /\ ~last.handled.created
    /\ Cardinality(billing_customers) = 2
    /\ Redeliver({}, {}, events) =
           [customers |-> billing_customers,
            subscriptions |-> billing_subscriptions]

(***************************************************************************)
(* Requests to manage_billing_subscription, served from the tables an      *)
(* earlier run of the poller has left in the store.  The poller stands     *)
(* still.                                                                  *)
(***************************************************************************)
\* The events the earlier run was listed: those of StripeEvents, and the
\* creation of a customer with the e-mail address of user 12.
PortalEvents ==
    StripeEvents \cup
    { Event("evt_8", "customer.created",
            CustomerObject([id |-> "cus_5", email |-> "b@example.com"])) }

PortalInit ==
    /\ stripe_client \in BOOLEAN
    /\ pc = "start"
    /\ feedPages = 1
    /\ feed = <<>>
    /\ events = <<>>
    /\ has_more = FALSE
    /\ next_event = 1
    /\ requested = 0
    /\ dispatched = <<>>
    /\ \E page \in Pages(PortalEvents, PageLimit) :
          LET stored == Redeliver({}, {}, page)
          IN  /\ billing_customers = stored.customers
              /\ billing_subscriptions = stored.subscriptions
    /\ last = NoLast
    /\ poll_result = "none"
    /\ removed = 0
    /\ shadow_customers = billing_customers
    /\ shadow_subscriptions = billing_subscriptions
    /\ in_progress = 0
    /\ resolvers = [p \in Resolvers |-> NoResolution]
    /\ portal = NoPortal

\* The bodies a request may carry: a github id, and no subscription id, the
\* id of a subscription row or an id of no row.
Bodies ==
    { ManageBillingSubscriptionBody(github_user_id, subscription_id) :
        github_user_id \in GithubUserIds,
        subscription_id \in
            {NoId} \cup { r.id : r \in billing_subscriptions }
                   \cup {NextId(billing_subscriptions)} }

\* A request is served.
ManageBillingSubscription ==
    /\ portal = NoPortal
    /\ \E body \in Bodies, fail \in ManageFailurePoints :
          \E customer \in
                get_billing_customer_by_user_id(billing_customers,
                    get_user_by_github_user_id(body.github_user_id).id) :
             portal' =
                 manage_billing_subscription(billing_customers,
                     billing_subscriptions, stripe_client, body, customer,
                     fail)
    /\ UNCHANGED <<stripe_client, pc, walk, tables, last, poll_result, shadow,
                   in_progress, resolvers>>

\* The response is sent.
PortalRespond ==
    /\ portal # NoPortal
    /\ portal' = NoPortal
    /\ UNCHANGED <<stripe_client, pc, walk, tables, last, poll_result, shadow,
                   in_progress, resolvers>>

PortalNext ==
    \/ ManageBillingSubscription
    \/ PortalRespond

PortalSpec == PortalInit /\ [][PortalNext]_vars

\* The user who made the request being served.
Requester == get_user_by_github_user_id(portal.body.github_user_id)

\* C22: manage_billing_subscription opens a cancellation flow only for a
\* subscription of the requesting user's billing customer: when a portal
\* session is created, the customer is a row of the requesting user and the
\* subscription's billing_customer_id is that row's id, whether the
\* subscription was given by subscription_id or was the user's only active
\* one; and with no subscription_id and no or several active subscriptions
\* the request fails and no session is created.
C22_PortalOnlyForOwnSubscription ==
    /\ portal.session # NoSession =>
          /\ portal.ok
          /\ portal.customer \in billing_customers
          /\ portal.customer.user_id = Requester.id
          /\ portal.subscription \in billing_subscriptions
          /\ portal.subscription.billing_customer_id = portal.customer.id
          /\ portal.session.customer = portal.customer.stripe_customer_id
          /\ portal.session.subscription_cancel =
                 portal.subscription.stripe_subscription_id
    /\ ( /\ portal # NoPortal
         /\ portal.body.subscription_id = NoId
         /\ Cardinality(get_active_billing_subscriptions(billing_customers,
                billing_subscriptions, Requester.id)) # 1 ) =>
          /\ ~portal.ok
          /\ portal.session = NoSession

=============================================================================
